---- MODULE Spec2Model ----
(***************************************************************************)
(* KVM virtual machine manager (amine-kherroubi/vcl).                       *)
(*                                                                         *)
(* Two front ends drive one libvirt hypervisor:                             *)
(*   - the terminal manager VMManager                                       *)
(*     (LAB2b_Python_Script_Kherroubi_Bousdjira_SQ1.py; Modest_Python_      *)
(*     Script.py is the same logic with shorter messages), actions Cli*;    *)
(*   - the GUI's VMService over LibvirtAdapter (vm_service.py,              *)
(*     libvirt_adapter.py), actions Gui*.                                   *)
(* The hypervisor itself (libvirt) is outside the repository; its domain    *)
(* calls are modelled by the Hv* operators after libvirt's documented       *)
(* behaviour, and the guest by the Guest* actions.                          *)
(*                                                                         *)
(* A menu handler of the terminal manager is one action: the answers the    *)
(* operator types at its prompts are the action's parameters.               *)
(***************************************************************************)
EXTENDS Integers, Sequences, FiniteSets, TLC

VARIABLES
    dom,      \* the hypervisor's domains, by name
    files,    \* the disk image files of the host, by path
    last,     \* the last operation: what it was given, saw, issued and returned
    flight,   \* per front end, the operation it is in the middle of
    selected_vm,  \* ControlPanelWidget._selected_vm
    conn,     \* a connection object (_conn and what became of its sessions)
    descriptors  \* the calls of the descriptor generator so far, in order

vars == <<dom, files, last, flight, selected_vm, conn, descriptors>>

----------------------------------------------------------------------------
(* libvirt domain state codes *)

VIR_DOMAIN_RUNNING == 1
VIR_DOMAIN_PAUSED == 3
VIR_DOMAIN_SHUTDOWN == 4
VIR_DOMAIN_SHUTOFF == 5

(* VMState of models.py *)
RUNNING == "running"
SHUTOFF == "shutoff"
PAUSED == "paused"
UNKNOWN == "unknown"

(* LibvirtAdapter._map_state: state_map.get(state_code, VMState.UNKNOWN) *)
MapState(state_code) ==
    CASE state_code = VIR_DOMAIN_RUNNING -> RUNNING
      [] state_code = VIR_DOMAIN_SHUTOFF -> SHUTOFF
      [] state_code = VIR_DOMAIN_PAUSED -> PAUSED
      [] OTHER -> UNKNOWN

\* A conversion that takes a domain that is shutting down for a running one
get_vm_state_shutdown_runs(state_code) ==
    CASE state_code \in {VIR_DOMAIN_RUNNING, VIR_DOMAIN_SHUTDOWN} -> RUNNING
      [] state_code = VIR_DOMAIN_SHUTOFF -> SHUTOFF
      [] state_code = VIR_DOMAIN_PAUSED -> PAUSED
      [] OTHER -> UNKNOWN

(* LibvirtManager._get_vm_state of control.py *)
get_vm_state(state_code) ==
    CASE state_code = 1 -> RUNNING
      [] state_code = 5 -> SHUTOFF
      [] state_code = 3 -> PAUSED
      [] OTHER -> UNKNOWN

\* The state codes of libvirt (virDomainState: 0 no state, 1 running,
\* 2 blocked, 3 paused, 4 shutting down, 5 shut off, 6 crashed,
\* 7 suspended by power management), and the integers next to them
DomainStates == 0..7
StateCodes == -1..8

----------------------------------------------------------------------------
(* The VMs, their disk images and the values the operator may enter *)

Names == {"vm1", "vm2"}

\* create_vm: disk_path = "%s/%s.qcow2" % (DISK_IMAGE_DIR, vm_name)
CliDiskPath(vm_name) ==
    IF vm_name = "vm1" THEN "/var/lib/libvirt/images/vm1.qcow2"
    ELSE "/var/lib/libvirt/images/vm2.qcow2"

Paths == {CliDiskPath(n) : n \in Names}

\* Memory (MB) and virtual CPUs as the operator enters them
MemValues == {1024}
VcpuValues == {2}

\* int() accepts zero and negative numbers as well; 0 stands for them.
MemInputs == MemValues \cup {0}
VcpuInputs == VcpuValues \cup {0}

\* A file is absent, a freshly created empty image, or an image a guest
\* has written to.
FileNone == "none"
FileFresh == "fresh"
FileData == "data"

----------------------------------------------------------------------------
(* The hypervisor *)

NoDom ==
    [present |-> FALSE, code |-> 0, persistent |-> FALSE,
     req |-> FALSE, memory |-> 0, vcpus |-> 0, disks |-> <<>>]

\* conn.lookupByName(name) raises libvirtError when there is no such domain
LookupFails(d) == ~d.present

\* virDomain.isActive(): the domain runs on the hypervisor (every state but
\* shut off)
IsActive(d) == d.present /\ d.code # VIR_DOMAIN_SHUTOFF

\* What the domain becomes when its process ends: a persistent domain is
\* shut off, a transient one is gone.
Stopped(d) ==
    IF d.persistent
    THEN [d EXCEPT !.code = VIR_DOMAIN_SHUTOFF, !.req = FALSE]
    ELSE NoDom

\* virDomain.create(): starts an inactive domain; libvirtError when the
\* domain is already active
HvCreate(d) ==
    IF d.present /\ ~IsActive(d)
    THEN [ok |-> TRUE, d |-> [d EXCEPT !.code = VIR_DOMAIN_RUNNING]]
    ELSE [ok |-> FALSE, d |-> d]

\* A shutdown() that returns only when the domain is shut off
HvShutdown_waits(d) ==
    IF IsActive(d)
    THEN [ok |-> TRUE, d |-> Stopped(d)]
    ELSE [ok |-> FALSE, d |-> d]

\* virDomain.shutdown(): asks the guest to shut down and returns; the
\* state changes only when the guest acts. libvirtError when not active
HvShutdown(d) ==
    IF IsActive(d)
    THEN [ok |-> TRUE, d |-> [d EXCEPT !.req = TRUE]]
    ELSE [ok |-> FALSE, d |-> d]

\* virDomain.destroy(): ends the domain's process at once; libvirtError
\* when not active
HvDestroy(d) ==
    IF IsActive(d)
    THEN [ok |-> TRUE, d |-> Stopped(d)]
    ELSE [ok |-> FALSE, d |-> d]

\* virDomain.suspend(): pauses an active domain
HvSuspend(d) ==
    IF IsActive(d)
    THEN [ok |-> TRUE, d |-> [d EXCEPT !.code = VIR_DOMAIN_PAUSED]]
    ELSE [ok |-> FALSE, d |-> d]

\* virDomain.resume(): a paused domain runs again
HvResume(d) ==
    IF IsActive(d)
    THEN [ok |-> TRUE,
          d |-> IF d.code = VIR_DOMAIN_PAUSED
                THEN [d EXCEPT !.code = VIR_DOMAIN_RUNNING]
                ELSE d]
    ELSE [ok |-> FALSE, d |-> d]

\* virDomain.undefine(): removes the persistent definition; a running
\* domain keeps running as a transient one. libvirtError for a domain that
\* has no persistent definition
HvUndefine(d) ==
    IF d.present /\ d.persistent
    THEN [ok |-> TRUE,
          d |-> IF IsActive(d) THEN [d EXCEPT !.persistent = FALSE] ELSE NoDom]
    ELSE [ok |-> FALSE, d |-> d]

\* conn.defineXML(xml): the descriptors of this program carry no uuid, so
\* a name the hypervisor already knows is rejected (it exists with another
\* uuid); so is a descriptor without memory or without a vcpu.  Of the
\* descriptor the hypervisor state keeps the memory (<memory unit='MiB'>,
\* which libvirt holds in KiB), the vcpus and the source files of the disks.
HvDefine(d, memory, vcpus, disk_path) ==
    IF ~d.present /\ memory > 0 /\ vcpus > 0
    THEN [ok |-> TRUE,
          d |-> [present |-> TRUE, code |-> VIR_DOMAIN_SHUTOFF,
                 persistent |-> TRUE, req |-> FALSE, memory |-> memory * 1024,
                 vcpus |-> vcpus, disks |-> <<disk_path>>]]
    ELSE [ok |-> FALSE, d |-> d]

\* conn.listAllDomains(): the names of all domains, active or not
ListAllDomains == {n \in Names : dom[n].present}

\* The state a list shows for a domain (list_all_domains /
\* _extract_vm_info)
ListState(d) == MapState(d.code)

\* _extract_vm_info without the conversion of KiB to MB
extract_vm_info_kib(name, d) ==
    [name |-> name, state |-> MapState(d.code),
     memory |-> d.memory, vcpus |-> d.vcpus]

\* LibvirtAdapter._extract_vm_info: the VMInfo of domain name; info[2] is
\* the memory in KiB, info[3] the number of virtual CPUs
extract_vm_info(name, d) ==
    [name |-> name, state |-> MapState(d.code),
     memory |-> d.memory \div 1024, vcpus |-> d.vcpus]

----------------------------------------------------------------------------
(* What an operation tells its caller.  The terminal manager prints a       *)
(* message; each message is named here by the result it stands for.  The    *)
(* GUI's service returns a bool.                                            *)

Ok == "Ok"                                   \* print_success(...)
NoVMs == "NoVMs"                             \* "No virtual machines found."
Failed == "Failed"                           \* "Failed to ...: <libvirtError>"
AlreadyRunning == "AlreadyRunning"           \* "VM '%s' is already running."
InvalidTransition == "InvalidTransition"     \* "VM '%s' is paused. Use 'Resume VM' option."
InvalidState == "InvalidState"               \* "VM '%s' is in state: %s"
NotRunning == "NotRunning"                   \* "VM '%s' is not running."
AlreadySuspended == "AlreadySuspended"       \* "VM '%s' is already suspended."
NotPaused == "NotPaused"                     \* "VM '%s' is not paused."
CannotDeleteRunning == "CannotDeleteRunning" \* "Cannot delete a running VM"
StopFailed == "StopFailed"                   \* "Failed to stop VM: %s" (in delete)
Cancelled == "Cancelled"                     \* "Deletion cancelled - name mismatch"
DeleteFailed == "DeleteFailed"               \* "Failed to delete VM: %s"
NotFound == "NotFound"                       \* "VM not found: %s"
AlreadyExists == "AlreadyExists"             \* "VM '%s' already exists!"
IsoNotFound == "IsoNotFound"                 \* "ISO file not found: %s"
DiskCreationFailed == "DiskCreationFailed"   \* "Failed to create disk image!"
DefinitionFailed == "DefinitionFailed"       \* "Failed to create VM: %s"
MustBeRunning == NotRunning                  \* "VM '%s' must be running to retrieve IP!"
AgentUnavailable == "AgentUnavailable"       \* "Unable to retrieve IP address", "Ensure qemu-guest-agent is ..."
NoAddresses == "NoAddresses"                 \* "No IP addresses found"
True == "True"                               \* return True
False == "False"                             \* return False

\* The outcome of a handler: its result, the commands it issued to the
\* hypervisor, what the domain and the files are afterwards, and the
\* per-file report of a disk deletion.
Out(result, issued, d, f, report) ==
    [result |-> result, issued |-> issued, d |-> d, files |-> f,
     report |-> report]

----------------------------------------------------------------------------
(* The terminal manager: VMManager *)

\* VMManager.start_vm; listed: list_vms() returned domains
start_vm(d, f, listed) ==
    IF ~listed THEN Out(NoVMs, {}, d, f, {})
    ELSE IF LookupFails(d) THEN Out(Failed, {}, d, f, {})
    ELSE IF d.code = VIR_DOMAIN_SHUTOFF THEN
        LET r == HvCreate(d)
        IN Out(IF r.ok THEN Ok ELSE Failed, {"create"}, r.d, f, {})
    ELSE IF d.code = VIR_DOMAIN_RUNNING THEN Out(AlreadyRunning, {}, d, f, {})
    ELSE IF d.code = VIR_DOMAIN_PAUSED THEN Out(InvalidTransition, {}, d, f, {})
    ELSE Out(InvalidState, {}, d, f, {})

\* VMManager.stop_vm; choice: the shutdown method the operator wants
\* ("1" graceful, "2" force), asked for only once the VM is seen running
stop_vm(d, f, listed, choice) ==
    IF ~listed THEN Out(NoVMs, {}, d, f, {})
    ELSE IF LookupFails(d) THEN Out(Failed, {}, d, f, {})
    ELSE IF d.code # VIR_DOMAIN_RUNNING THEN Out(NotRunning, {}, d, f, {})
    ELSE IF choice = "2" THEN
        LET r == HvDestroy(d)
        IN Out(IF r.ok THEN Ok ELSE Failed, {"destroy"}, r.d, f, {})
    ELSE
        LET r == HvShutdown(d)
        IN Out(IF r.ok THEN Ok ELSE Failed, {"shutdown"}, r.d, f, {})

\* suspend_vm without its "already suspended" branch: every VM that is not
\* shut off is suspended
suspend_vm_any_active(d, f, listed) ==
    IF ~listed THEN Out(NoVMs, {}, d, f, {})
    ELSE IF LookupFails(d) THEN Out(Failed, {}, d, f, {})
    ELSE IF d.code # VIR_DOMAIN_SHUTOFF THEN
        LET r == HvSuspend(d)
        IN Out(IF r.ok THEN Ok ELSE Failed, {"suspend"}, r.d, f, {})
    ELSE Out(NotRunning, {}, d, f, {})

\* VMManager.suspend_vm
suspend_vm(d, f, listed) ==
    IF ~listed THEN Out(NoVMs, {}, d, f, {})
    ELSE IF LookupFails(d) THEN Out(Failed, {}, d, f, {})
    ELSE IF d.code = VIR_DOMAIN_RUNNING THEN
        LET r == HvSuspend(d)
        IN Out(IF r.ok THEN Ok ELSE Failed, {"suspend"}, r.d, f, {})
    ELSE IF d.code = VIR_DOMAIN_PAUSED THEN Out(AlreadySuspended, {}, d, f, {})
    ELSE Out(NotRunning, {}, d, f, {})

\* resume_vm with the two state tests exchanged
resume_vm_swapped(d, f, listed) ==
    IF ~listed THEN Out(NoVMs, {}, d, f, {})
    ELSE IF LookupFails(d) THEN Out(Failed, {}, d, f, {})
    ELSE IF d.code = VIR_DOMAIN_RUNNING THEN
        LET r == HvResume(d)
        IN Out(IF r.ok THEN Ok ELSE Failed, {"resume"}, r.d, f, {})
    ELSE IF d.code = VIR_DOMAIN_PAUSED THEN Out(AlreadyRunning, {}, d, f, {})
    ELSE Out(NotPaused, {}, d, f, {})

\* VMManager.resume_vm
resume_vm(d, f, listed) ==
    IF ~listed THEN Out(NoVMs, {}, d, f, {})
    ELSE IF LookupFails(d) THEN Out(Failed, {}, d, f, {})
    ELSE IF d.code = VIR_DOMAIN_PAUSED THEN
        LET r == HvResume(d)
        IN Out(IF r.ok THEN Ok ELSE Failed, {"resume"}, r.d, f, {})
    ELSE IF d.code = VIR_DOMAIN_RUNNING THEN Out(AlreadyRunning, {}, d, f, {})
    ELSE Out(NotPaused, {}, d, f, {})

\* re.findall(r"<source file='([^']*\.qcow2)'/>", dom.XMLDesc(0)): the
\* source files of the definition whose name ends in .qcow2; XMLDesc
\* raises, and the list stays empty, when the domain is gone
IsQcow2(path) == path \in Paths

Range(seq) == {seq[i] : i \in 1..Len(seq)}

disk_paths(d) ==
    IF ~d.present THEN <<>>
    ELSE SelectSeq(d.disks, IsQcow2)

\* The loop over disk_paths of delete_vm: os.path.exists, os.remove
\* (OSError for the paths of rm_fails), one report per path
RECURSIVE remove_disks(_, _, _)
remove_disks(paths, f, rm_fails) ==
    IF paths = <<>> THEN [files |-> f, report |-> {}]
    ELSE
        LET p == Head(paths)
            here == IF f[p] = FileNone THEN [f |-> f, st |-> "NotFound"]
                    ELSE IF p \in rm_fails THEN [f |-> f, st |-> "DeletionFailed"]
                    ELSE [f |-> [f EXCEPT ![p] = FileNone], st |-> "Deleted"]
            rest == remove_disks(Tail(paths), here.f, rm_fails)
        IN [files |-> rest.files, report |-> {<<p, here.st>>} \cup rest.report]

\* delete_vm that removes the disk files whatever the operator answers
delete_vm_removes_always(d, f, listed, stop_first, confirm, delete_disks, rm_fails) ==
    IF ~listed THEN Out(NoVMs, {}, d, f, {})
    ELSE IF LookupFails(d) THEN Out(NotFound, {}, d, f, {})
    ELSE IF IsActive(d) /\ ~stop_first THEN Out(CannotDeleteRunning, {}, d, f, {})
    ELSE
        LET stop == IF IsActive(d) THEN HvDestroy(d) ELSE [ok |-> TRUE, d |-> d]
            i1 == IF IsActive(d) THEN {"destroy"} ELSE {}
            undef == HvUndefine(stop.d)
            rm == remove_disks(disk_paths(stop.d), f, rm_fails)
        IN  IF ~stop.ok THEN Out(StopFailed, i1, stop.d, f, {})
            ELSE IF ~confirm THEN Out(Cancelled, i1, stop.d, f, {})
            ELSE IF ~undef.ok
                 THEN Out(DeleteFailed, i1 \cup {"undefine"}, stop.d, f, {})
            ELSE Out(Ok, i1 \cup {"undefine"}, undef.d, rm.files,
                     IF delete_disks THEN rm.report ELSE {})

\* delete_vm that removes the disk files before it looks at what undefine
\* did
delete_vm_confirm_disks_first(d, f, paths, i1, confirm, delete_disks, rm_fails) ==
    LET undef == HvUndefine(d)
        rm == remove_disks(paths, f, rm_fails)
    IN  IF ~confirm THEN Out(Cancelled, i1, d, f, {})
        ELSE IF paths # <<>> /\ delete_disks
             THEN Out(IF undef.ok THEN Ok ELSE DeleteFailed,
                      i1 \cup {"undefine"}, undef.d, rm.files, rm.report)
        ELSE IF ~undef.ok THEN Out(DeleteFailed, i1 \cup {"undefine"}, d, f, {})
        ELSE Out(Ok, i1 \cup {"undefine"}, undef.d, f, {})

\* VMManager.delete_vm from its confirmation prompt on: d is the domain as
\* it is when the operator answers, paths the disk paths read and i1 the
\* commands issued before the prompt
delete_vm_confirm(d, f, paths, i1, confirm, delete_disks, rm_fails) ==
    LET undef == HvUndefine(d)
        rm == remove_disks(paths, f, rm_fails)
    IN  IF ~confirm THEN Out(Cancelled, i1, d, f, {})
        ELSE IF ~undef.ok THEN Out(DeleteFailed, i1 \cup {"undefine"}, d, f, {})
        ELSE IF paths # <<>> /\ delete_disks
             THEN Out(Ok, i1 \cup {"undefine"}, undef.d, rm.files, rm.report)
        ELSE Out(Ok, i1 \cup {"undefine"}, undef.d, f, {})

\* VMManager.delete_vm; stop_first, confirm (the typed name matches) and
\* delete_disks are the operator's answers
delete_vm(d, f, listed, stop_first, confirm, delete_disks, rm_fails) ==
    IF ~listed THEN Out(NoVMs, {}, d, f, {})
    ELSE IF LookupFails(d) THEN Out(NotFound, {}, d, f, {})
    ELSE IF IsActive(d) /\ ~stop_first THEN Out(CannotDeleteRunning, {}, d, f, {})
    ELSE
        LET stop == IF IsActive(d) THEN HvDestroy(d) ELSE [ok |-> TRUE, d |-> d]
            i1 == IF IsActive(d) THEN {"destroy"} ELSE {}
        IN  IF ~stop.ok THEN Out(StopFailed, i1, stop.d, f, {})
            ELSE delete_vm_confirm(stop.d, f, disk_paths(stop.d), i1, confirm,
                                   delete_disks, rm_fails)

\* VMManager.create_vm; iso_ok: the ISO path entered exists; tool_fails:
\* qemu-img exits non-zero; start_now: the answer to "Start VM now?".
\* qemu-img create writes a new image over whatever is at disk_path.  The
\* report is what the operator is told about the disk ("Disk image
\* created: <path>").
create_vm(vm_name, d, f, memory, vcpus, iso_ok, tool_fails, start_now) ==
    IF ~LookupFails(d) THEN Out(AlreadyExists, {}, d, f, {})
    ELSE IF ~iso_ok THEN Out(IsoNotFound, {}, d, f, {})
    ELSE IF tool_fails THEN Out(DiskCreationFailed, {"qemu-img"}, d, f, {})
    ELSE
        LET disk_path == CliDiskPath(vm_name)
            f1 == [f EXCEPT ![disk_path] = FileFresh]
            def == HvDefine(d, memory, vcpus, disk_path)
            run == HvCreate(def.d)
            told == {<<disk_path, "Created">>}
        IN  IF ~def.ok
            THEN Out(DefinitionFailed, {"qemu-img", "defineXML"}, d, f1, told)
            ELSE IF ~start_now
            THEN Out(Ok, {"qemu-img", "defineXML"}, def.d, f1, told)
            ELSE IF run.ok
            THEN Out(Ok, {"qemu-img", "defineXML", "create"}, run.d, f1, told)
            ELSE Out(DefinitionFailed, {"qemu-img", "defineXML", "create"},
                     run.d, f1, told)

\* What the guest agent may report: interfaces, each with its addresses
\* (type and text); "lo" is the loopback interface
IfaceNames == {"lo", "eth0", "eth1"}
IPV4 == "ipv4"
IPV6 == "ipv6"
AddrLists == {{}, {<<IPV4, "192.168.122.10">>}, {<<IPV6, "fe80::1">>}}
IfaceReports == UNION {[S -> AddrLists] : S \in SUBSET IfaceNames}

\* The loop without its test for "lo"
printed_interfaces_with_lo(ifaces) ==
    {<<i, ifaces[i]>> : i \in {j \in DOMAIN ifaces : ifaces[j] # {}}}

\* The loop of get_vm_ip over ifaces: one entry (the interface and the
\* addresses printed under it) for every interface but "lo" that has
\* addresses
printed_interfaces(ifaces) ==
    {<<i, ifaces[i]>> : i \in {j \in DOMAIN ifaces : j # "lo" /\ ifaces[j] # {}}}

\* found: an IPv4 address was printed
found_ipv4(entries) == \E e \in entries : \E a \in e[2] : a[1] = IPV4

\* get_vm_ip with one try around everything: the agent's libvirtError is
\* answered like that of lookupByName
get_vm_ip_one_try(d, f, listed, agent, ifaces) ==
    IF ~listed THEN Out(NoVMs, {}, d, f, {})
    ELSE IF LookupFails(d) THEN Out(NotFound, {}, d, f, {})
    ELSE IF ~IsActive(d) THEN Out(MustBeRunning, {}, d, f, {})
    ELSE IF ~agent THEN Out(NotFound, {"interfaceAddresses"}, d, f, {})
    ELSE LET entries == printed_interfaces(ifaces)
         IN  Out(IF found_ipv4(entries) THEN Ok ELSE NoAddresses,
                 {"interfaceAddresses"}, d, f, entries)

\* VMManager.get_vm_ip; agent: the guest agent answers
\* dom.interfaceAddresses(VIR_DOMAIN_INTERFACE_ADDRESSES_SRC_AGENT), with
\* ifaces (libvirtError otherwise)
get_vm_ip(d, f, listed, agent, ifaces) ==
    IF ~listed THEN Out(NoVMs, {}, d, f, {})
    ELSE IF LookupFails(d) THEN Out(NotFound, {}, d, f, {})
    ELSE IF ~IsActive(d) THEN Out(MustBeRunning, {}, d, f, {})
    ELSE IF ~agent THEN Out(AgentUnavailable, {"interfaceAddresses"}, d, f, {})
    ELSE LET entries == printed_interfaces(ifaces)
         IN  Out(IF found_ipv4(entries) THEN Ok ELSE NoAddresses,
                 {"interfaceAddresses"}, d, f, entries)

----------------------------------------------------------------------------
(* The GUI: VMService over LibvirtAdapter, on an open connection *)

\* _execute_domain_action once the domain is looked up: action(domain)
\* with outcome r, True unless libvirtError
apply_action(d, f, command, r) ==
    Out(IF r.ok THEN True ELSE False, {command}, r.d, f, {})

\* _execute_domain_action that calls the action although lookupByName
\* found no domain
execute_domain_action_no_lookup(d, f, command, r) ==
    apply_action(d, f, command, r)

\* LibvirtAdapter._execute_domain_action with the action's outcome r
execute_domain_action(d, f, command, r) ==
    IF LookupFails(d) THEN Out(False, {}, d, f, {})
    ELSE apply_action(d, f, command, r)

\* VMService.start_vm -> LibvirtAdapter.start_domain
start_domain(d, f) == execute_domain_action(d, f, "create", HvCreate(d))

\* VMService.shutdown_vm -> LibvirtAdapter.shutdown_domain
shutdown_domain(d, f) == execute_domain_action(d, f, "shutdown", HvShutdown(d))

\* VMService.force_stop_vm -> LibvirtAdapter.destroy_domain
destroy_domain(d, f) == execute_domain_action(d, f, "destroy", HvDestroy(d))

\* VMService.delete_vm -> LibvirtAdapter.undefine_domain
undefine_domain(d, f) == execute_domain_action(d, f, "undefine", HvUndefine(d))

(* The older GUI (gui.py): LibvirtManager of control.py, on an open         *)
(* connection                                                               *)

\* A method of LibvirtManager that returns True also when the command
\* raised
manager_call_always_true(d, f, command, r) ==
    IF LookupFails(d) THEN Out(False, {}, d, f, {})
    ELSE Out(True, {command}, r.d, f, {})

\* LibvirtManager.start_vm, shutdown_vm, force_stop_vm and delete_vm:
\* lookupByName, the command (create, shutdown, destroy, undefine) with
\* outcome r, True; False on libvirtError
manager_call(d, f, command, r) ==
    IF LookupFails(d) THEN Out(False, {}, d, f, {})
    ELSE Out(IF r.ok THEN True ELSE False, {command}, r.d, f, {})

\* The VMInfo that LibvirtManager.list_vms builds for a domain
manager_vm_info(name, d) ==
    [name |-> name, state |-> get_vm_state(d.code),
     memory |-> d.memory \div 1024, vcpus |-> d.vcpus]

\* VMService.create_vm that goes on to define_domain when qemu-img failed
service_create_vm_unchecked(d, f, memory, vcpus, disk_path, tool_fails) ==
    LET exists == f[disk_path] # FileNone
        f1 == IF exists \/ tool_fails THEN f
              ELSE [f EXCEPT ![disk_path] = FileFresh]
        def == HvDefine(d, memory, vcpus, disk_path)
        tool == IF exists THEN {} ELSE {"qemu-img"}
    IN  Out(IF def.ok THEN True ELSE False, tool \cup {"defineXML"},
            def.d, f1, {})

\* VMService.create_vm (and LibvirtAdapter.define_domain); what it does to
\* the disk goes to the log only, the caller gets a bool
service_create_vm(d, f, memory, vcpus, disk_path, tool_fails) ==
    LET exists == f[disk_path] # FileNone
        f1 == IF exists THEN f ELSE [f EXCEPT ![disk_path] = FileFresh]
        def == HvDefine(d, memory, vcpus, disk_path)
        tool == IF exists THEN {} ELSE {"qemu-img"}
    IN  IF ~exists /\ tool_fails THEN Out(False, tool, d, f, {})
        ELSE Out(IF def.ok THEN True ELSE False, tool \cup {"defineXML"},
                 def.d, f1, {})

----------------------------------------------------------------------------
(* The connection objects.  _conn is None or a virConnect object, whose      *)
(* session is open or has been closed.  Of libvirt-python: close() closes   *)
(* the session of the object and raises libvirtError on an object that is   *)
(* closed already; an object that loses its last reference closes its       *)
(* session (virConnect.__del__).                                             *)

Conns == {"LibvirtAdapter", "LibvirtManager", "VMManager", "ModestVMManager"}

\* The classes whose connect returns a bool: LibvirtAdapter (main.py) and
\* control.LibvirtManager (gui.py)
GuiConns == {"LibvirtAdapter", "LibvirtManager"}

\* libvirt.open(uri) returns a virConnect, returns None or raises
\* libvirtError
OpenOutcomes == {"handle", "none", "raises"}

Raised == "Raised"    \* an exception leaves the method
Exit == "Exit"        \* sys.exit(1)
None == "None"        \* the method returns nothing

\* The sessions one connection object may open in the model
MaxSessions == 2

\* __init__ (self._conn = None; VMManager: self.connected = False), in a
\* program that has just begun.  opened and closed count the sessions
\* opened through this object and those of them that were closed; leaked
\* counts the sessions that were open when the process ended.
NewConn(c) ==
    [class |-> c, handle |-> "None", connected |-> FALSE,
     opened |-> 0, closed |-> 0, leaked |-> 0,
     call |-> "none", outcome |-> "none", returned |-> "none",
     pc |-> "start", startup |-> "none", invoked |-> {}]

\* The virConnect object that _conn referred to has no reference left
Release(o) == IF o.handle = "open" THEN [o EXCEPT !.closed = @ + 1] ELSE o

\* self._conn = libvirt.open(self._uri): nothing is assigned when open
\* raises
Bind(o, outcome) ==
    IF outcome = "raises" THEN o
    ELSE [Release(o) EXCEPT
             !.handle = IF outcome = "handle" THEN "open" ELSE "None",
             !.opened = IF outcome = "handle" THEN @ + 1 ELSE @]

\* The process ends, and its sessions with it
ProcessExit(o) ==
    [o EXCEPT !.handle = "None", !.connected = FALSE, !.closed = o.opened,
              !.leaked = o.opened - o.closed, !.pc = "exited"]

\* connect that keeps the virConnect objects it opened earlier
connect_keeps_sessions(o, outcome) ==
    LET b == IF outcome = "raises" THEN o
             ELSE [o EXCEPT
                      !.handle = IF outcome = "handle" THEN "open" ELSE "None",
                      !.opened = IF outcome = "handle" THEN @ + 1 ELSE @]
        c == [b EXCEPT !.call = "connect", !.outcome = outcome]
    IN  IF o.class \in GuiConns
        THEN [c EXCEPT !.returned = IF outcome = "handle" THEN True ELSE False]
        ELSE IF outcome = "handle"
             THEN [c EXCEPT !.connected = (o.class = "VMManager"),
                            !.returned = None]
             ELSE [ProcessExit(c) EXCEPT !.returned = Exit]

\* LibvirtAdapter.connect and LibvirtManager.connect (a bool);
\* VMManager.connect of the two terminal scripts (sys.exit(1) when open
\* gives no connection or raises)
connect(o, outcome) ==
    LET c == [Bind(o, outcome) EXCEPT !.call = "connect", !.outcome = outcome]
    IN  IF o.class \in GuiConns
        THEN [c EXCEPT !.returned = IF outcome = "handle" THEN True ELSE False]
        ELSE IF outcome = "handle"
             THEN [c EXCEPT !.connected = (o.class = "VMManager"),
                            !.returned = None]
             ELSE [ProcessExit(c) EXCEPT !.returned = Exit]

\* self._conn.close(): libvirtError on a virConnect that was closed before
\* or whose connection to the daemon is lost ("broken")
Close(o) ==
    IF o.handle = "open"
    THEN [o EXCEPT !.handle = "closed", !.closed = @ + 1]
    ELSE [o EXCEPT !.returned = Raised]

\* LibvirtAdapter.disconnect without its finally: _conn stays when close
\* raised
disconnect_without_finally(o) ==
    LET o1 == [o EXCEPT !.call = "disconnect", !.returned = None]
        c == Close(o1)
    IN  CASE o.class = "LibvirtAdapter" ->
               IF o.handle # "None"
               THEN IF c.returned = Raised THEN [c EXCEPT !.returned = None]
                    ELSE [c EXCEPT !.handle = "None"]
               ELSE o1
          [] o.class = "LibvirtManager" ->
               IF o.handle # "None"
               THEN IF c.returned = Raised THEN c
                    ELSE [c EXCEPT !.handle = "None"]
               ELSE o1
          [] o.class = "VMManager" ->
               IF o.handle # "None" /\ o.connected
               THEN IF c.returned = Raised THEN c
                    ELSE [c EXCEPT !.connected = FALSE]
               ELSE o1
          [] OTHER ->
               IF o.handle # "None" THEN c ELSE o1

\* LibvirtAdapter.disconnect (try / except libvirtError / finally
\* self._conn = None), LibvirtManager.disconnect (close, then
\* self._conn = None), VMManager.close of LAB2b (if self.conn and
\* self.connected: close, connected = False) and of Modest (if self.conn:
\* close)
disconnect(o) ==
    LET o1 == [o EXCEPT !.call = "disconnect", !.returned = None]
        c == Close(o1)
    IN  CASE o.class = "LibvirtAdapter" ->
               IF o.handle # "None"
               THEN [c EXCEPT !.handle = "None", !.returned = None]
               ELSE o1
          [] o.class = "LibvirtManager" ->
               IF o.handle # "None"
               THEN IF c.returned = Raised THEN c
                    ELSE [c EXCEPT !.handle = "None"]
               ELSE o1
          [] o.class = "VMManager" ->
               IF o.handle # "None" /\ o.connected
               THEN IF c.returned = Raised THEN c
                    ELSE [c EXCEPT !.connected = FALSE]
               ELSE o1
          [] OTHER ->
               IF o.handle # "None" THEN c ELSE o1

\* The test of _conn in front of every operation of LibvirtAdapter and of
\* LibvirtManager (if not self._conn: return False): without a virConnect
\* nothing is called; on an open one the first call (lookupByName,
\* defineXML) goes to the hypervisor and the operation has outcome out; on
\* any other that call raises libvirtError
on_session(o, d, f, call, out) ==
    IF o.handle = "None" THEN Out(False, {}, d, f, {})
    ELSE IF o.handle = "open" THEN [out EXCEPT !.issued = @ \cup {call}]
    ELSE Out(False, {call}, d, f, {})

\* The operations a front end offers once it is running: the buttons of
\* the GUI, the menu of the terminal manager
CoordinatorOps(c) ==
    IF c \in GuiConns
    THEN {"list", "create", "start", "gracefulStop", "forceStop", "delete"}
    ELSE {"list", "create", "start", "gracefulStop", "forceStop", "suspend",
          "resume", "delete", "queryAddresses"}

\* A start of the program that builds its window although connect failed
startup_goes_on(o, outcome) ==
    LET c == connect(o, outcome)
    IN  IF c.pc = "exited" THEN [c EXCEPT !.startup = "failed"]
        ELSE IF o.class \in GuiConns /\ c.returned # True
        THEN [c EXCEPT !.pc = "serving", !.startup = "failed"]
        ELSE [c EXCEPT !.pc = "serving", !.startup = "connected"]

\* The start of the program: main of main.py (show_error, then
\* sys.exit(1)), LibvirtGUI.__init__ (the error label, no widgets), main of
\* the terminal scripts (connect has left the process when it failed)
startup(o, outcome) ==
    LET c == connect(o, outcome)
    IN  IF c.pc = "exited" THEN [c EXCEPT !.startup = "failed"]
        ELSE IF o.class \in GuiConns /\ c.returned # True
        THEN [c EXCEPT !.pc = "error", !.startup = "failed"]
        ELSE [c EXCEPT !.pc = "serving", !.startup = "connected"]

\* A program that is running on its open connection
Connected(c) == startup(NewConn(c), "handle")

----------------------------------------------------------------------------
(* The record of the last operation *)

\* The parameters of a create
\* and, for an operation of the control panel, the state that the
\* selected VMInfo shows; for a list, what kept it from enumerating (fault)
\* and the domains that listAllDomains returned; for get_vm_ip, whether
\* the guest agent answers and with which interfaces; for the answers at
\* the prompts of delete_vm, the answers and the disk paths read before;
\* for a call of the adapter, what its _conn was (handle)
NoArgs ==
    [memory |-> 0, vcpus |-> 0, disk_path |-> "", tool_fails |-> FALSE,
     seen |-> "", fault |-> "none", domains |-> <<>>,
     agent |-> FALSE, ifaces |-> <<>>, state_code |-> 0,
     confirm |-> FALSE, delete_disks |-> FALSE, paths |-> <<>>,
     handle |-> ""]

CreateArgs(memory, vcpus, disk_path, tool_fails) ==
    [NoArgs EXCEPT !.memory = memory, !.vcpus = vcpus,
                   !.disk_path = disk_path, !.tool_fails = tool_fails]

\* No operation in progress
Idle ==
    [op |-> "none", name |-> "", issued |-> {}, paths |-> <<>>,
     domains |-> <<>>]

\* self._selected_vm = None
NoSelection == [name |-> "", state |-> "", memory |-> 0, vcpus |-> 0]

NoOp ==
    [impl |-> "none", op |-> "none", name |-> "", args |-> NoArgs,
     result |-> "none", issued |-> {}, report |-> {},
     dom |-> [n \in Names |-> NoDom], files |-> [p \in Paths |-> FileNone]]

GuestOp == [NoOp EXCEPT !.impl = "guest", !.op = "guest"]

\* An operation of front end impl on name took place with outcome out.
Record(impl, op, name, args, out) ==
    /\ dom' = [dom EXCEPT ![name] = out.d]
    /\ files' = out.files
    /\ last' = [impl |-> impl, op |-> op, name |-> name, args |-> args,
                result |-> out.result, issued |-> out.issued,
                report |-> out.report, dom |-> dom, files |-> files]

\* A handler that runs from its start to its end in one step
StepWith(impl, op, name, args, out) ==
    /\ Record(impl, op, name, args, out)
    /\ UNCHANGED <<flight, selected_vm, conn, descriptors>>

Step(impl, op, name, out) == StepWith(impl, op, name, NoArgs, out)

Listed == ListAllDomains # {}

\* A list was returned (empty when there is nothing to show)
ListResult == "List"

\* The orders in which listAllDomains may return the domains
Orders(S) ==
    {q \in [1..Cardinality(S) -> S] : \A i, j \in 1..Cardinality(S) :
                                          i # j => q[i] # q[j]}

\* The loop of a list over the domains that listAllDomains returned:
\* domain.state() and domain.info() of one domain after the other, each a
\* libvirtError when the domain is gone by now; entries are the VMInfo
\* values obtained before that
RECURSIVE read_domains(_)
read_domains(names) ==
    IF names = <<>> THEN [entries |-> {}, raised |-> FALSE]
    ELSE IF ~dom[Head(names)].present THEN [entries |-> {}, raised |-> TRUE]
    ELSE LET rest == read_domains(Tail(names))
         IN  [entries |-> {extract_vm_info(Head(names), dom[Head(names)])}
                              \cup rest.entries,
              raised |-> rest.raised]

\* The record of a list
ListRecord(impl, fault, names, result, entries) ==
    [NoOp EXCEPT !.impl = impl, !.op = "list",
                 !.args = [NoArgs EXCEPT !.fault = fault, !.domains = names],
                 !.result = result, !.report = entries,
                 !.dom = dom, !.files = files]

Init ==
    /\ dom = [n \in Names |-> NoDom]
    /\ files = [p \in Paths |-> FileNone]
    /\ last = NoOp
    /\ flight = [impl \in {"cli", "gui"} |-> Idle]
    /\ selected_vm = NoSelection
    /\ conn = Connected("LibvirtAdapter")
    /\ descriptors = <<>>

CliStart(n) == Step("cli", "start", n, start_vm(dom[n], files, Listed))

CliStop(n, choice) ==
    Step("cli", IF choice = "2" THEN "forceStop" ELSE "gracefulStop", n,
         stop_vm(dom[n], files, Listed, choice))

CliSuspend(n) == Step("cli", "suspend", n, suspend_vm(dom[n], files, Listed))

CliResume(n) == Step("cli", "resume", n, resume_vm(dom[n], files, Listed))

CliDelete(n, stop_first, confirm, delete_disks, rm_fails) ==
    Step("cli", "delete", n,
         delete_vm(dom[n], files, Listed, stop_first, confirm, delete_disks,
                   rm_fails))

CliCreate(n, memory, vcpus, iso_ok, tool_fails, start_now) ==
    StepWith("cli", "create", n,
             CreateArgs(memory, vcpus, CliDiskPath(n), tool_fails),
             create_vm(n, dom[n], files, memory, vcpus, iso_ok, tool_fails,
                       start_now))

CliGetIp(n, agent, ifaces) ==
    StepWith("cli", "queryAddresses", n,
             [NoArgs EXCEPT !.agent = agent, !.ifaces = ifaces],
             get_vm_ip(dom[n], files, Listed, agent, ifaces))

GuiStart(n) == Step("gui", "start", n, start_domain(dom[n], files))

GuiShutdown(n) == Step("gui", "gracefulStop", n, shutdown_domain(dom[n], files))

GuiForceStop(n) == Step("gui", "forceStop", n, destroy_domain(dom[n], files))

GuiDelete(n) == Step("gui", "delete", n, undefine_domain(dom[n], files))

GuiCreate(n, memory, vcpus, disk_path, tool_fails) ==
    StepWith("gui", "create", n,
             CreateArgs(memory, vcpus, disk_path, tool_fails),
             service_create_vm(dom[n], files, memory, vcpus, disk_path,
                               tool_fails))

(* The guest *)

\* The guest acts on the shutdown request: the domain is shutting down.
GuestShutdownBegins(n) ==
    /\ dom[n].present /\ dom[n].code = VIR_DOMAIN_RUNNING /\ dom[n].req
    /\ dom' = [dom EXCEPT ![n].code = VIR_DOMAIN_SHUTDOWN]
    /\ last' = GuestOp
    /\ UNCHANGED <<files, flight, selected_vm, conn, descriptors>>

\* The guest has shut down.
GuestShutdownEnds(n) ==
    /\ dom[n].present /\ dom[n].code = VIR_DOMAIN_SHUTDOWN
    /\ dom' = [dom EXCEPT ![n] = Stopped(dom[n])]
    /\ last' = GuestOp
    /\ UNCHANGED <<files, flight, selected_vm, conn, descriptors>>

\* A running guest writes to its disk image (vda, the first disk).
GuestWrites(n) ==
    /\ dom[n].present /\ dom[n].code = VIR_DOMAIN_RUNNING
    /\ dom[n].disks # <<>> /\ Head(dom[n].disks) \in DOMAIN files
    /\ files[Head(dom[n].disks)] = FileFresh
    /\ files' = [files EXCEPT ![Head(dom[n].disks)] = FileData]
    /\ last' = GuestOp
    /\ UNCHANGED <<dom, flight, selected_vm, conn, descriptors>>

Next ==
    \E n \in Names :
        \/ CliStart(n)
        \/ \E choice \in {"1", "2"} : CliStop(n, choice)
        \/ CliSuspend(n)
        \/ CliResume(n)
        \/ \E stop_first, confirm, delete_disks \in BOOLEAN,
              rm_fails \in SUBSET Range(disk_paths(dom[n])) :
               CliDelete(n, stop_first, confirm, delete_disks, rm_fails)
        \/ \E memory \in MemValues, vcpus \in VcpuValues,
              iso_ok, tool_fails, start_now \in BOOLEAN :
               CliCreate(n, memory, vcpus, iso_ok, tool_fails, start_now)
        \/ GuiStart(n)
        \/ GuiShutdown(n)
        \/ GuiForceStop(n)
        \/ GuiDelete(n)
        \/ \E memory \in MemValues, vcpus \in VcpuValues, disk_path \in Paths,
              tool_fails \in BOOLEAN :
               GuiCreate(n, memory, vcpus, disk_path, tool_fails)
        \/ GuestShutdownBegins(n)
        \/ GuestShutdownEnds(n)
        \/ GuestWrites(n)

Spec == Init /\ [][Next]_vars

----------------------------------------------------------------------------
(* Creation and deletion with every value the operator may enter for the    *)
(* memory and the virtual CPUs; a VM is started, written to by its guest    *)
(* and force-stopped so that disk images with content exist.                *)

NextCreate ==
    \E n \in Names :
        \/ \E memory \in MemInputs, vcpus \in VcpuInputs,
              iso_ok, tool_fails, start_now \in BOOLEAN :
               CliCreate(n, memory, vcpus, iso_ok, tool_fails, start_now)
        \/ \E memory \in MemInputs, vcpus \in VcpuInputs, disk_path \in Paths,
              tool_fails \in BOOLEAN :
               GuiCreate(n, memory, vcpus, disk_path, tool_fails)
        \/ CliStart(n)
        \/ CliStop(n, "2")
        \/ GuestWrites(n)
        \/ \E stop_first, confirm, delete_disks \in BOOLEAN,
              rm_fails \in SUBSET Range(disk_paths(dom[n])) :
               CliDelete(n, stop_first, confirm, delete_disks, rm_fails)
        \/ GuiDelete(n)

SpecCreate == Init /\ [][NextCreate]_vars

----------------------------------------------------------------------------
(* Graceful shutdown with a guest that cooperates: once asked, the guest    *)
(* begins to shut down and then finishes, while the operators create,       *)
(* start and ask VMs to shut down.                                          *)

NextGuest ==
    \E n \in Names :
        \/ \E memory \in MemValues, vcpus \in VcpuValues,
              iso_ok, tool_fails, start_now \in BOOLEAN :
               CliCreate(n, memory, vcpus, iso_ok, tool_fails, start_now)
        \/ CliStart(n)
        \/ GuiStart(n)
        \/ CliStop(n, "1")
        \/ GuiShutdown(n)
        \/ GuestShutdownBegins(n)
        \/ GuestShutdownEnds(n)

SpecGuest ==
    /\ Init /\ [][NextGuest]_vars
    /\ \A n \in Names : /\ WF_vars(GuestShutdownBegins(n))
                        /\ WF_vars(GuestShutdownEnds(n))

----------------------------------------------------------------------------
(* Deletion of a VM that this program did not necessarily define: the      *)
(* hypervisor is shared, and a definition may name several disks, among    *)
(* them files whose name does not end in .qcow2 (the GUI's dialog takes    *)
(* any path).                                                               *)

MaxDisks == 2

\* A disk image that is not named *.qcow2
ImgPath == "/var/lib/libvirt/images/vm1.img"

AllPaths == Paths \cup {ImgPath}

\* The lists of at most MaxDisks different source files
DiskLists ==
    {l \in UNION {[1..k -> AllPaths] : k \in 0..MaxDisks} :
        \A i, j \in 1..Len(l) : i # j => l[i] # l[j]}

\* A shut-off domain as conn.lookupByName finds it, with these disks
DefinedDom(disks) ==
    [present |-> TRUE, code |-> VIR_DOMAIN_SHUTOFF, persistent |-> TRUE,
     req |-> FALSE, memory |-> 1024 * 1024, vcpus |-> 2, disks |-> disks]

InitDisks ==
    /\ \E disks \in DiskLists :
          dom = [n \in Names |-> IF n = "vm1" THEN DefinedDom(disks) ELSE NoDom]
    /\ files \in [AllPaths -> {FileNone, FileFresh, FileData}]
    /\ last = NoOp
    /\ flight = [impl \in {"cli", "gui"} |-> Idle]
    /\ selected_vm = NoSelection
    /\ conn = Connected("LibvirtAdapter")
    /\ descriptors = <<>>

NextDisks ==
    \E n \in Names :
        \/ \E stop_first, confirm, delete_disks \in BOOLEAN,
              rm_fails \in SUBSET Range(disk_paths(dom[n])) :
               CliDelete(n, stop_first, confirm, delete_disks, rm_fails)
        \/ GuiDelete(n)

SpecDisks == InitDisks /\ [][NextDisks]_vars

----------------------------------------------------------------------------
(* The two front ends at work on the same hypervisor at the same time.      *)
(* The terminal manager's delete waits for the operator at its              *)
(* confirmation prompt; the control panel acts on the VMInfo that was       *)
(* selected in the list, and its adapter looks the domain up and then       *)
(* calls it.                                                                *)

WidgetOps == {"start", "gracefulStop", "forceStop", "delete"}

\* The libvirt call that the adapter makes for a button, and its outcome
adapter_action(op, d) ==
    CASE op = "start" -> [command |-> "create", r |-> HvCreate(d)]
      [] op = "gracefulStop" -> [command |-> "shutdown", r |-> HvShutdown(d)]
      [] op = "forceStop" -> [command |-> "destroy", r |-> HvDestroy(d)]
      [] op = "delete" -> [command |-> "undefine", r |-> HvUndefine(d)]

PanelArgs(seen) == [NoArgs EXCEPT !.seen = seen]

\* MainWindow._on_vm_selected -> ControlPanelWidget.set_selected_vm: the
\* VMInfo of a list entry becomes the selection
SelectVm(n) ==
    /\ flight["gui"] = Idle /\ dom[n].present
    /\ selected_vm' = extract_vm_info(n, dom[n])
    /\ UNCHANGED <<dom, files, last, flight, conn, descriptors>>

\* A button of the control panel (Delete: with the dialog confirmed), up
\* to the adapter's lookupByName
PanelLookup(op) ==
    /\ flight["gui"] = Idle /\ selected_vm # NoSelection
    /\ LET n == selected_vm.name
       IN  IF LookupFails(dom[n])
           THEN /\ Record("gui", op, n, PanelArgs(selected_vm.state),
                          Out(False, {}, dom[n], files, {}))
                /\ selected_vm' = IF op = "delete" THEN NoSelection
                                  ELSE selected_vm
                /\ UNCHANGED <<flight, conn, descriptors>>
           ELSE /\ flight' = [flight EXCEPT
                                 !["gui"] = [Idle EXCEPT !.op = op, !.name = n]]
                /\ UNCHANGED <<dom, files, last, selected_vm, conn,
                               descriptors>>

\* action(domain) of _execute_domain_action, and the handler's end
PanelAct ==
    /\ flight["gui"] # Idle
    /\ LET op == flight["gui"].op
           n == flight["gui"].name
           c == adapter_action(op, dom[n])
       IN  /\ Record("gui", op, n, PanelArgs(selected_vm.state),
                     apply_action(dom[n], files, c.command, c.r))
           /\ selected_vm' = IF op = "delete" THEN NoSelection ELSE selected_vm
    /\ flight' = [flight EXCEPT !["gui"] = Idle]
    /\ UNCHANGED <<conn, descriptors>>

\* VMManager.delete_vm up to "Type VM name to confirm deletion: "
DeleteAsk(n, stop_first) ==
    /\ flight["cli"] = Idle
    /\ LET out == delete_vm(dom[n], files, Listed, stop_first, FALSE, FALSE, {})
       IN  IF out.result = Cancelled
           THEN /\ dom' = [dom EXCEPT ![n] = out.d]
                /\ flight' = [flight EXCEPT
                                 !["cli"] = [Idle EXCEPT
                                                !.op = "delete", !.name = n,
                                                !.issued = out.issued,
                                                !.paths = disk_paths(out.d)]]
                /\ UNCHANGED <<files, last, selected_vm, conn, descriptors>>
           ELSE Step("cli", "delete", n, out)

\* VMManager.delete_vm from the operator's answer on
DeleteAnswer(confirm, delete_disks, rm_fails) ==
    /\ flight["cli"].op = "delete"
    /\ LET n == flight["cli"].name
       IN  Record("cli", "delete", n,
                  [NoArgs EXCEPT !.confirm = confirm,
                                 !.delete_disks = delete_disks,
                                 !.paths = flight["cli"].paths],
                  delete_vm_confirm(dom[n], files, flight["cli"].paths,
                                    flight["cli"].issued, confirm, delete_disks,
                                    rm_fails))
    /\ flight' = [flight EXCEPT !["cli"] = Idle]
    /\ UNCHANGED <<selected_vm, conn, descriptors>>

\* The terminal manager starts a VM from its menu
MenuStart(n) == flight["cli"] = Idle /\ CliStart(n)

InitRace ==
    /\ dom = [n \in Names |-> DefinedDom(<<CliDiskPath(n)>>)]
    /\ files = [p \in Paths |-> FileFresh]
    /\ last = NoOp
    /\ flight = [impl \in {"cli", "gui"} |-> Idle]
    /\ selected_vm = NoSelection
    /\ conn = Connected("LibvirtAdapter")
    /\ descriptors = <<>>

NextRace ==
    \/ \E n \in Names : SelectVm(n)
    \/ \E op \in WidgetOps : PanelLookup(op)
    \/ PanelAct
    \/ \E n \in Names, stop_first \in BOOLEAN : DeleteAsk(n, stop_first)
    \/ \E confirm, delete_disks \in BOOLEAN,
          rm_fails \in SUBSET Range(flight["cli"].paths) :
           DeleteAnswer(confirm, delete_disks, rm_fails)
    \/ \E n \in Names : MenuStart(n)

SpecRace == InitRace /\ [][NextRace]_vars

----------------------------------------------------------------------------
(* Any sequence of connect, disconnect and list calls on one connection     *)
(* object, on a hypervisor with VMs that the other front end may delete     *)
(* meanwhile.                                                                *)

InitConn ==
    /\ dom = [n \in Names |-> DefinedDom(<<CliDiskPath(n)>>)]
    /\ files = [p \in Paths |-> FileFresh]
    /\ last = NoOp
    /\ flight = [impl \in {"cli", "gui"} |-> Idle]
    /\ selected_vm = NoSelection
    /\ \E c \in Conns : conn = NewConn(c)
    /\ descriptors = <<>>

\* The front end the connection object belongs to
FrontEnd == IF conn.class \in GuiConns THEN "gui" ELSE "cli"

Connect(outcome) ==
    /\ conn.pc # "exited" /\ flight[FrontEnd] = Idle
    /\ conn.opened < MaxSessions
    /\ conn' = connect(conn, outcome)
    /\ UNCHANGED <<dom, files, last, flight, selected_vm, descriptors>>

Disconnect ==
    /\ conn.pc # "exited" /\ flight[FrontEnd] = Idle
    /\ conn' = disconnect(conn)
    /\ UNCHANGED <<dom, files, last, flight, selected_vm, descriptors>>

\* The connection to the daemon is lost: the session is over, the
\* virConnect object stays
SessionBreaks ==
    /\ conn.handle = "open" /\ conn.pc # "exited"
    /\ conn' = [conn EXCEPT !.handle = "broken", !.closed = @ + 1]
    /\ UNCHANGED <<dom, files, last, flight, selected_vm, descriptors>>

\* start_domain, shutdown_domain, destroy_domain, undefine_domain and
\* define_domain of LibvirtAdapter, called whatever its connection is
AdapterCall(op, n) ==
    /\ conn.class = "LibvirtAdapter" /\ conn.pc # "exited"
    /\ flight["gui"] = Idle
    /\ LET d == dom[n]
           def == HvDefine(d, 1024, 2, CliDiskPath(n))
           out == CASE op = "start" -> start_domain(d, files)
                    [] op = "gracefulStop" -> shutdown_domain(d, files)
                    [] op = "forceStop" -> destroy_domain(d, files)
                    [] op = "delete" -> undefine_domain(d, files)
                    [] OTHER -> Out(IF def.ok THEN True ELSE False, {}, def.d,
                                    files, {})
       IN  StepWith("gui", op, n, [NoArgs EXCEPT !.handle = conn.handle],
                    on_session(conn, d, files,
                               IF op = "create" THEN "defineXML"
                               ELSE "lookupByName",
                               out))

\* LibvirtAdapter.list_all_domains, LibvirtManager.list_vms and
\* VMManager.list_vms up to the return of listAllDomains, which raises
\* libvirtError when enum_fails or on a closed virConnect.  The terminal
\* scripts reach their menu only on a connection.
ListBegin(enum_fails) ==
    /\ conn.pc # "exited" /\ flight[FrontEnd] = Idle
    /\ conn.class \in GuiConns \/ conn.handle # "None"
    /\ LET done(fault) ==
               /\ last' = ListRecord(FrontEnd, fault, <<>>, ListResult, {})
               /\ UNCHANGED flight
       IN  IF conn.class \in GuiConns /\ conn.handle = "None"
           THEN done("no connection")
           ELSE IF enum_fails \/ conn.handle # "open"
           THEN done("listAllDomains")
           ELSE IF ListAllDomains = {}
           THEN done("none")
           ELSE /\ \E q \in Orders(ListAllDomains) :
                      flight' = [flight EXCEPT
                                    ![FrontEnd] = [Idle EXCEPT !.op = "list",
                                                               !.domains = q]]
                /\ UNCHANGED last
    /\ UNCHANGED <<dom, files, selected_vm, conn, descriptors>>

\* The loop over the domains and the return.  The adapter and
\* LibvirtManager have the loop inside their try and return what they have;
\* VMManager.list_vms calls dom.state() outside of any try.
ListEnd ==
    /\ flight[FrontEnd].op = "list"
    /\ LET names == flight[FrontEnd].domains
           r == read_domains(names)
       IN  last' = IF FrontEnd = "cli" /\ r.raised
                   THEN ListRecord("cli", "domain", names, Raised, {})
                   ELSE ListRecord(FrontEnd,
                                   IF r.raised THEN "domain" ELSE "none",
                                   names, ListResult, r.entries)
    /\ flight' = [flight EXCEPT ![FrontEnd] = Idle]
    /\ UNCHANGED <<dom, files, selected_vm, conn, descriptors>>

\* The other front end deletes a VM
OtherDeletes(n) ==
    /\ dom[n].present
    /\ IF FrontEnd = "cli" THEN GuiDelete(n)
       ELSE CliDelete(n, FALSE, TRUE, FALSE, {})

NextConn ==
    \/ \E outcome \in OpenOutcomes : Connect(outcome)
    \/ Disconnect
    \/ \E enum_fails \in BOOLEAN : ListBegin(enum_fails)
    \/ ListEnd
    \/ \E n \in Names : OtherDeletes(n)
    \/ SessionBreaks
    \/ \E n \in Names,
          op \in {"start", "gracefulStop", "forceStop", "delete", "create"} :
           AdapterCall(op, n)

SpecConn == InitConn /\ [][NextConn]_vars

----------------------------------------------------------------------------
(* The programs from their start to their end: main.py, gui.py and the two  *)
(* terminal scripts                                                         *)

\* main / LibvirtGUI.__init__ up to the connection
Startup(outcome) ==
    /\ conn.pc = "start"
    /\ conn' = startup(conn, outcome)
    /\ UNCHANGED <<dom, files, last, flight, selected_vm, descriptors>>

\* A button or a menu choice calls an operation of the coordinator
Invoke(op) ==
    /\ conn.pc = "serving" /\ op \in CoordinatorOps(conn.class)
    /\ conn' = [conn EXCEPT !.invoked = @ \cup {op}]
    /\ UNCHANGED <<dom, files, last, flight, selected_vm, descriptors>>

\* The error window is closed: main.py goes on to sys.exit(1),
\* LibvirtGUI.destroy calls manager.disconnect()
ErrorDismissed ==
    /\ conn.pc = "error"
    /\ conn' = IF conn.class = "LibvirtAdapter"
               THEN ProcessExit([conn EXCEPT !.returned = Exit])
               ELSE ProcessExit(disconnect(conn))
    /\ UNCHANGED <<dom, files, last, flight, selected_vm, descriptors>>

\* The window is closed (main.py: finally adapter.disconnect();
\* LibvirtGUI.destroy), or the operator enters q (manager.close(),
\* sys.exit(0))
Quit ==
    /\ conn.pc = "serving"
    /\ conn' = ProcessExit(disconnect(conn))
    /\ UNCHANGED <<dom, files, last, flight, selected_vm, descriptors>>

\* The window cannot be built after connect has returned True
\* (MainWindow(...) in main of main.py, _create_widgets and
\* _refresh_vm_list in LibvirtGUI.__init__ raise, outside of any try): the
\* exception ends the process
WindowFails ==
    /\ conn.pc = "serving" /\ conn.class \in GuiConns /\ conn.invoked = {}
    /\ conn' = ProcessExit([conn EXCEPT !.returned = Raised])
    /\ UNCHANGED <<dom, files, last, flight, selected_vm, descriptors>>

\* An operation raises what it does not catch.  The terminal scripts:
\* except Exception in the menu loop (the message, the log, pause).
\* main.py: the exception that ends app.mainloop() is logged and the
\* finally disconnects.  gui.py: Tk reports it and the loop goes on.
OperationRaises ==
    /\ conn.pc = "serving" /\ conn.invoked # {}
    /\ conn' = CASE conn.class \notin GuiConns ->
                      [conn EXCEPT !.pc = "handling", !.returned = Raised]
                 [] conn.class = "LibvirtAdapter" ->
                      ProcessExit(disconnect(conn))
                 [] OTHER -> [conn EXCEPT !.returned = None]
    /\ UNCHANGED <<dom, files, last, flight, selected_vm, descriptors>>

\* The except Exception block of the menu loop is done
ErrorHandled ==
    /\ conn.pc = "handling"
    /\ conn' = [conn EXCEPT !.pc = "serving", !.returned = None]
    /\ UNCHANGED <<dom, files, last, flight, selected_vm, descriptors>>

\* KeyboardInterrupt (Ctrl-C).  main.py: it leaves app.mainloop() and the
\* finally disconnects.  gui.py: it leaves app.mainloop(), which is in no
\* try.  The terminal scripts: except KeyboardInterrupt of the menu loop
\* (manager.close(), sys.exit(0)) when it arrives in the try block; one
\* that arrives in the except Exception block leaves main
Interrupt ==
    /\ conn.pc \in {"serving", "handling"}
    /\ conn' = CASE conn.class = "LibvirtAdapter" ->
                      ProcessExit(disconnect(conn))
                 [] conn.class = "LibvirtManager" ->
                      ProcessExit([conn EXCEPT !.returned = Raised])
                 [] conn.pc = "serving" -> ProcessExit(disconnect(conn))
                 [] OTHER -> ProcessExit([conn EXCEPT !.returned = Raised])
    /\ UNCHANGED <<dom, files, last, flight, selected_vm, descriptors>>

NextStartup ==
    \/ \E outcome \in OpenOutcomes : Startup(outcome)
    \/ \E op \in CoordinatorOps(conn.class) : Invoke(op)
    \/ ErrorDismissed
    \/ Quit
    \/ WindowFails
    \/ OperationRaises
    \/ ErrorHandled
    \/ Interrupt

SpecStartup == InitConn /\ [][NextStartup]_vars

----------------------------------------------------------------------------
(* The terminal manager asks the guest agent of a VM for its addresses,     *)
(* while VMs are started, suspended, resumed and stopped.                   *)

NextAddr ==
    \E n \in Names :
        \/ \E ifaces \in IfaceReports : CliGetIp(n, TRUE, ifaces)
        \/ CliGetIp(n, FALSE, <<>>)
        \/ CliStart(n)
        \/ \E choice \in {"1", "2"} : CliStop(n, choice)
        \/ CliSuspend(n)
        \/ CliResume(n)
        \/ GuiDelete(n)
        \/ GuestShutdownBegins(n)
        \/ GuestShutdownEnds(n)

SpecAddr == InitRace /\ [][NextAddr]_vars

----------------------------------------------------------------------------
(* VMXMLGenerator: the descriptor of a VM, generated from its arguments     *)
(* while VMs are created, started and deleted.                              *)

IsoFile == "/var/lib/libvirt/images/install.iso"
IsoPaths == {None, "", IsoFile}     \* iso_path: None, empty, or a path
XmlMemory == {1024}
XmlVcpus == {2}
MaxDescriptors == 2

\* VMXMLGenerator._generate_cdrom: the cdrom <disk> element
generate_cdrom(iso_path) ==
    <<[element |-> "disk", device |-> "cdrom", driver |-> "raw",
       source |-> iso_path, target |-> "hdc", bus |-> "ide",
       readonly |-> TRUE]>>

\* A generator that numbers its descriptors: the text depends on the
\* descriptors generated before
generate_vm_xml_numbered(name, memory, vcpus, disk_path, iso_path) ==
    LET cdrom_device ==
            IF iso_path \notin {None, ""} THEN generate_cdrom(iso_path)
            ELSE <<>>
    IN  <<[element |-> "domain", type |-> "kvm"],
          [element |-> "name", text |-> name],
          [element |-> "memory", unit |-> "MiB", text |-> memory],
          [element |-> "vcpu", placement |-> "static", text |-> vcpus],
          [element |-> "boot", dev |-> "hd"],
          [element |-> "boot", dev |-> "cdrom"],
          [element |-> "disk", device |-> "disk", driver |-> "qcow2",
           source |-> disk_path, target |-> "vda", bus |-> "virtio",
           readonly |-> FALSE]>>
        \o cdrom_device
        \o <<[element |-> "interface", network |-> "default",
              model |-> "virtio"],
             [element |-> "graphics", type |-> "vnc",
              port |-> Len(descriptors)]>>

\* VMXMLGenerator.generate_vm_xml: the text of the descriptor, element by
\* element in the order of the text; the cdrom element is there when
\* iso_path is neither None nor empty
generate_vm_xml(name, memory, vcpus, disk_path, iso_path) ==
    LET cdrom_device ==
            IF iso_path \notin {None, ""} THEN generate_cdrom(iso_path)
            ELSE <<>>
    IN  <<[element |-> "domain", type |-> "kvm"],
          [element |-> "name", text |-> name],
          [element |-> "memory", unit |-> "MiB", text |-> memory],
          [element |-> "vcpu", placement |-> "static", text |-> vcpus],
          [element |-> "boot", dev |-> "hd"],
          [element |-> "boot", dev |-> "cdrom"],
          [element |-> "disk", device |-> "disk", driver |-> "qcow2",
           source |-> disk_path, target |-> "vda", bus |-> "virtio",
           readonly |-> FALSE]>>
        \o cdrom_device
        \o <<[element |-> "interface", network |-> "default",
              model |-> "virtio"],
             [element |-> "graphics", type |-> "vnc", port |-> -1]>>

\* A call of generate_vm_xml; descriptors keeps its arguments, the text
\* it returned, and what the hypervisor held under the name and the
\* filesystem under the disk path when it was called
Build(name, memory, vcpus, disk_path, iso_path) ==
    /\ Len(descriptors) < MaxDescriptors
    /\ LET xml == generate_vm_xml(name, memory, vcpus, disk_path, iso_path)
       IN  /\ descriptors' =
                  Append(descriptors,
                         [args |-> <<name, memory, vcpus, disk_path,
                                     iso_path>>,
                          xml |-> xml,
                          defined |-> dom[name].present,
                          file |-> files[disk_path]])
           /\ last' = [NoOp EXCEPT !.impl = "gui", !.op = "build",
                                   !.name = name,
                                   !.args = CreateArgs(memory, vcpus,
                                                       disk_path, FALSE),
                                   !.result = Ok, !.report = {xml},
                                   !.dom = dom, !.files = files]
    /\ UNCHANGED <<dom, files, flight, selected_vm, conn>>

NextXml ==
    \E n \in Names :
        \/ \E memory \in XmlMemory, vcpus \in XmlVcpus, iso_path \in IsoPaths :
               Build(n, memory, vcpus, CliDiskPath(n), iso_path)
        \/ GuiCreate(n, 1024, 2, CliDiskPath(n), FALSE)
        \/ GuiStart(n)
        \/ GuiDelete(n)

SpecXml == Init /\ [][NextXml]_vars

----------------------------------------------------------------------------
(* The two back ends of the GUI, LibvirtAdapter and LibvirtManager, on a    *)
(* hypervisor whose domains may be in any state.                            *)

\* The hypervisor reports another state for a domain (the guest crashed,
\* was suspended by power management, ...)
DomainEnters(n, state_code) ==
    /\ dom[n].present /\ dom[n].code # state_code
    /\ dom' = [dom EXCEPT ![n].code = state_code]
    /\ last' = GuestOp
    /\ UNCHANGED <<files, flight, selected_vm, conn, descriptors>>

\* Both conversions applied to a state code
MapStates(state_code) ==
    /\ last' = [NoOp EXCEPT !.impl = "gui", !.op = "map_state",
                            !.args = [NoArgs EXCEPT
                                          !.state_code = state_code],
                            !.result = MapState(state_code),
                            !.report = {get_vm_state(state_code)},
                            !.dom = dom, !.files = files]
    /\ UNCHANGED <<dom, files, flight, selected_vm, conn, descriptors>>

\* The same command given to VMService (over LibvirtAdapter) and to
\* LibvirtManager in the same state of the hypervisor; the record keeps
\* what VMService did and, as its report, what LibvirtManager did
BothCall(op, n) ==
    /\ LET d == dom[n]
           a == CASE op = "start" -> start_domain(d, files)
                  [] op = "gracefulStop" -> shutdown_domain(d, files)
                  [] op = "forceStop" -> destroy_domain(d, files)
                  [] OTHER -> undefine_domain(d, files)
           b == CASE op = "start" ->
                         manager_call(d, files, "create", HvCreate(d))
                  [] op = "gracefulStop" ->
                         manager_call(d, files, "shutdown", HvShutdown(d))
                  [] op = "forceStop" ->
                         manager_call(d, files, "destroy", HvDestroy(d))
                  [] OTHER ->
                         manager_call(d, files, "undefine", HvUndefine(d))
       IN  Record("gui", op, n, NoArgs, [a EXCEPT !.report = {b}])
    /\ UNCHANGED <<flight, selected_vm, conn, descriptors>>

\* VMService.list_vms and LibvirtManager.list_vms in the same state of the
\* hypervisor
BothList ==
    /\ last' = ListRecord("gui", "none", <<>>, ListResult,
                          {[backend |-> "LibvirtAdapter",
                            vms |-> {extract_vm_info(n, dom[n]) :
                                         n \in ListAllDomains}],
                           [backend |-> "LibvirtManager",
                            vms |-> {manager_vm_info(n, dom[n]) :
                                         n \in ListAllDomains}]})
    /\ UNCHANGED <<dom, files, flight, selected_vm, conn, descriptors>>

NextBackends ==
    \/ \E n \in Names, state_code \in DomainStates :
           DomainEnters(n, state_code)
    \/ \E state_code \in StateCodes : MapStates(state_code)
    \/ \E n \in Names,
          op \in {"start", "gracefulStop", "forceStop", "delete"} :
           BothCall(op, n)
    \/ BothList

SpecBackends == InitRace /\ [][NextBackends]_vars

----------------------------------------------------------------------------
(* Properties.  last names the operation that led to the current state,    *)
(* last.dom and last.files are the hypervisor and the files before it.     *)

IsOp == last.impl \in {"cli", "gui"}
Pre == last.dom[last.name]
Post == dom[last.name]
Unchanged == dom = last.dom /\ files = last.files
Succeeded == last.result \in {Ok, True}

\* C1: a delete of a VM that is Active (running or paused) and was not
\* force-stopped first returns CannotDeleteRunning and leaves the VM
\* defined and as it was; no delete removes the definition of an Active VM.
C1_DeleteOfActive ==
    (IsOp /\ last.op = "delete" /\ IsActive(Pre) /\ "destroy" \notin last.issued)
        => (last.result = CannotDeleteRunning /\ Unchanged)

\* The transition table of the state machine; the force stop that a delete
\* performs on request counts as a forceStop.
Transitions ==
    {<<SHUTOFF, RUNNING, "start">>, <<RUNNING, SHUTOFF, "gracefulStop">>,
     <<RUNNING, SHUTOFF, "forceStop">>, <<RUNNING, PAUSED, "suspend">>,
     <<PAUSED, RUNNING, "resume">>, <<PAUSED, SHUTOFF, "forceStop">>,
     <<RUNNING, SHUTOFF, "delete">>, <<PAUSED, SHUTOFF, "delete">>}

\* C2: the only changes of a VM's state that an operation causes are
\* ShutOff->Running by start, Running->ShutOff by gracefulStop or forceStop,
\* Running->Paused by suspend, Paused->Running by resume and
\* Paused->ShutOff by forceStop.
C2_OnlyListedTransitions ==
    IsOp =>
        \A n \in Names :
            (last.dom[n].present /\ dom[n].present
             /\ ListState(last.dom[n]) # ListState(dom[n]))
                => (n = last.name
                    /\ <<ListState(last.dom[n]), ListState(dom[n]), last.op>>
                           \in Transitions)

\* C3: start on a VM that is Running returns AlreadyRunning and changes
\* nothing.
C3_StartOfRunning ==
    (IsOp /\ last.op = "start" /\ Pre.present /\ ListState(Pre) = RUNNING)
        => (last.result = AlreadyRunning /\ Unchanged)

\* C4: start on a Paused VM fails with InvalidTransition, issues no start
\* command to the hypervisor and leaves the VM Paused.
C4_StartOfPaused ==
    (IsOp /\ last.op = "start" /\ Pre.present /\ ListState(Pre) = PAUSED)
        => (last.result = InvalidTransition /\ "create" \notin last.issued
            /\ Unchanged)

\* C5: gracefulStop on a VM that is not Running (ShutOff, Paused, Unknown)
\* fails with NotRunning, issues no shutdown request and leaves the VM's
\* state unchanged.
C5_GracefulStopOfNotRunning ==
    (IsOp /\ last.op = "gracefulStop" /\ Pre.present /\ ListState(Pre) # RUNNING)
        => (last.result = NotRunning /\ "shutdown" \notin last.issued
            /\ Unchanged)

\* C6: forceStop on a (defined) VM that is Running or Paused succeeds, and
\* the VM is ShutOff when the call returns.
C6_ForceStopOfRunningOrPaused ==
    (IsOp /\ last.op = "forceStop" /\ Pre.present /\ Pre.persistent
     /\ ListState(Pre) \in {RUNNING, PAUSED})
        => (Succeeded /\ Post.present /\ ListState(Post) = SHUTOFF)

\* C7: suspend succeeds only from Running; on a Paused VM it fails with
\* AlreadySuspended, on a VM in any other state with NotRunning, and
\* whenever it fails the hypervisor (hence the state a list shows) is as
\* before.
C7_Suspend ==
    (IsOp /\ last.op = "suspend")
        => /\ last.result # Ok => Unchanged
           /\ Pre.present =>
                /\ ListState(Pre) = PAUSED => last.result = AlreadySuspended
                /\ ListState(Pre) \notin {RUNNING, PAUSED} => last.result = NotRunning
                /\ last.result = Ok => ListState(Pre) = RUNNING

\* C7's case: suspend of a ShutOff VM answered NotRunning, the VM still
\* ShutOff.
C7_Witness ==
    /\ IsOp /\ last.op = "suspend" /\ Pre.present
    /\ ListState(Pre) = SHUTOFF /\ last.result = NotRunning
    /\ ListState(Post) = SHUTOFF

\* C8: resume succeeds only from Paused, and the VM is then Running; on a
\* Running VM it fails with AlreadyRunning, on a VM in any other state with
\* NotPaused, and whenever it fails the VM is as before.
C8_Resume ==
    (IsOp /\ last.op = "resume")
        => /\ last.result # Ok => Unchanged
           /\ Pre.present =>
                /\ ListState(Pre) = RUNNING => last.result = AlreadyRunning
                /\ ListState(Pre) \notin {RUNNING, PAUSED} => last.result = NotPaused
                /\ ListState(Pre) = PAUSED
                       => (last.result = Ok /\ Post.present
                           /\ ListState(Post) = RUNNING)
                /\ last.result = Ok => ListState(Pre) = PAUSED

\* C8's case: a Paused VM was resumed and is Running.
C8_Witness ==
    /\ IsOp /\ last.op = "resume" /\ Pre.present
    /\ ListState(Pre) = PAUSED /\ last.result = Ok
    /\ ListState(Post) = RUNNING

\* C9: on a VM whose state is Unknown, start, gracefulStop, forceStop,
\* suspend, resume and delete leave the VM's definition and state
\* unchanged.
C9_UnknownIsTerminal ==
    (IsOp /\ last.op \in {"start", "gracefulStop", "forceStop", "suspend",
                          "resume", "delete"}
     /\ Pre.present /\ ListState(Pre) = UNKNOWN)
        => (Post.present /\ Post.persistent = Pre.persistent
            /\ Post.code = Pre.code)

\* C10: create with a name that is already defined fails with
\* AlreadyExists, submits no definition to the hypervisor and leaves the
\* existing VM and its disk artifact unchanged.
C10_CreateOfExistingName ==
    (IsOp /\ last.op = "create" /\ Pre.present)
        => (last.result = AlreadyExists /\ "defineXML" \notin last.issued
            /\ dom = last.dom
            /\ \A p \in Range(Pre.disks) \cap Paths : files[p] = last.files[p])

\* C11: the disk image exists at disk_path when the descriptor is submitted
\* for definition, and a create whose image-creation tool fails reports the
\* failure (DiskCreationFailed; the GUI service's False), submits no
\* definition and leaves the hypervisor's VMs as they were.
C11_DiskBeforeDefinition ==
    (IsOp /\ last.op = "create")
        => /\ "defineXML" \in last.issued => files[last.args.disk_path] # FileNone
           /\ ("qemu-img" \in last.issued /\ last.args.tool_fails)
                => (last.result \in {DiskCreationFailed, False}
                    /\ "defineXML" \notin last.issued
                    /\ dom = last.dom)

\* C11's case: the GUI service ran qemu-img, it failed, and create returned
\* False without defining anything.
C11_Witness ==
    /\ IsOp /\ last.op = "create" /\ last.impl = "gui"
    /\ "qemu-img" \in last.issued /\ last.args.tool_fails
    /\ last.result = False /\ dom = last.dom

\* C12: when create has created a disk image and the hypervisor rejects
\* the descriptor, the caller gets a definition failure and is told about
\* the disk image that was left behind.
C12_OrphanDiskIsCommunicated ==
    (IsOp /\ last.op = "create" /\ "defineXML" \in last.issued
     /\ ~Succeeded
     /\ last.files[last.args.disk_path] = FileNone
     /\ files[last.args.disk_path] # FileNone)
        => (last.result \in {DefinitionFailed, False}
            /\ \E e \in last.report : e[1] = last.args.disk_path)

\* The result the specification names for parameters out of range
InvalidParameters == "InvalidParameters"

\* C13: create with memory <= 0, vcpus <= 0 or an empty disk path fails
\* with InvalidParameters, creates no disk image and submits no definition.
C13_InvalidParameters ==
    (IsOp /\ last.op = "create"
     /\ (last.args.memory <= 0 \/ last.args.vcpus <= 0
         \/ last.args.disk_path = ""))
        => (last.result = InvalidParameters
            /\ "qemu-img" \notin last.issued /\ "defineXML" \notin last.issued
            /\ files = last.files)

\* C14: after a successful create a list shows the VM under its name with
\* the memory and the vcpus given to create, ShutOff unless the operator
\* asked create to start it; on a hypervisor that had no VM it is the only
\* entry.
C14_CreateThenList ==
    (IsOp /\ last.op = "create" /\ Succeeded)
        => LET info == extract_vm_info(last.name, Post)
           IN  /\ last.name \in ListAllDomains
               /\ info.memory = last.args.memory
               /\ info.vcpus = last.args.vcpus
               /\ "create" \notin last.issued => info.state = SHUTOFF
               /\ (\A n \in Names : ~last.dom[n].present)
                      => ListAllDomains = {last.name}

\* C14's case: the GUI service created a VM on an empty hypervisor and the
\* list shows it shut off.
C14_Witness ==
    /\ IsOp /\ last.op = "create" /\ last.impl = "gui" /\ Succeeded
    /\ \A n \in Names : ~last.dom[n].present
    /\ extract_vm_info(last.name, Post).state = SHUTOFF
    /\ extract_vm_info(last.name, Post).memory = 1024

\* C17: a create whose disk path already holds a file does not run the
\* image-creation tool and leaves the file as it is.
C17_EnsureDiskIsIdempotent ==
    (IsOp /\ last.op = "create"
     /\ last.files[last.args.disk_path] # FileNone)
        => ("qemu-img" \notin last.issued
            /\ files[last.args.disk_path] = last.files[last.args.disk_path])

\* C15: a delete that removes disks attempts every disk path of the VM's
\* definition on its own: a path that is not there is reported NotFound, a
\* path whose removal fails is reported as failed, every other path is
\* removed, and the definition is reported as removed.
C15_EveryDiskPathAttempted ==
    (IsOp /\ last.op = "delete" /\ last.report # {})
        => /\ last.result = Ok /\ ~Post.present
           /\ \A p \in Range(Pre.disks) :
                \E e \in last.report :
                    /\ e[1] = p
                    /\ last.files[p] = FileNone => e[2] = "NotFound"
                    /\ last.files[p] # FileNone
                          => e[2] \in {"Deleted", "DeletionFailed"}
                    /\ e[2] = "Deleted" => files[p] = FileNone

\* C16: a successful delete that was not asked to remove the disks removes
\* the definition and leaves every file as it was.
C16_DiskOutlivesVm ==
    (IsOp /\ last.op = "delete" /\ Succeeded /\ last.report = {})
        => (~(Post.present /\ Post.persistent) /\ files = last.files)

\* C16's case: the VM is gone and its disk image, with the guest's data,
\* is still there.
C16_Witness ==
    /\ IsOp /\ last.op = "delete" /\ Succeeded /\ last.report = {}
    /\ Pre.disks # <<>> /\ ~Post.present
    /\ files[Head(Pre.disks)] = FileData

\* A graceful stop of a Running VM has returned: it succeeded, the request
\* is with the guest and the VM is still Running.
ReturnsAtAcceptance ==
    (IsOp /\ last.op = "gracefulStop" /\ Pre.present
     /\ ListState(Pre) = RUNNING)
        => (Succeeded /\ "shutdown" \in last.issued /\ Post.req
            /\ ListState(Post) = RUNNING)

\* C18: gracefulStop on a Running VM returns success once the shutdown
\* request is accepted, with the VM still Running (it does not wait for
\* ShutOff), and with a guest that cooperates a later list shows ShutOff.
C18_GracefulStopIsAsynchronous ==
    /\ []ReturnsAtAcceptance
    /\ \A n \in Names :
          (dom[n].present /\ dom[n].req /\ ListState(dom[n]) = RUNNING)
              ~> (ListState(dom[n]) = SHUTOFF)

\* C18's case: a graceful stop has just returned success and the VM is
\* still Running with the request pending.
C18_Witness ==
    /\ IsOp /\ last.op = "gracefulStop" /\ Succeeded
    /\ Pre.present /\ ListState(Pre) = RUNNING
    /\ ListState(Post) = RUNNING /\ Post.req

\* C19: no two lifecycle operations on the same VM name are in progress at
\* the same time.
C19_SerializedPerName ==
    ~(/\ flight["cli"] # Idle /\ flight["gui"] # Idle
      /\ flight["cli"].name = flight["gui"].name)

\* The state from which the state machine lets a command be issued
Legal(command, state) ==
    CASE command = "create" -> state = SHUTOFF
      [] command = "shutdown" -> state = RUNNING
      [] command = "destroy" -> state \in {RUNNING, PAUSED}
      [] command = "undefine" -> state = SHUTOFF
      [] OTHER -> TRUE

\* C20: an operation decides from the state the hypervisor has during the
\* operation, not from the VMInfo obtained earlier: when the VM's state has
\* changed since the VMInfo was taken, no command is issued that is
\* illegal in the state the VM has now.
C20_NoStaleDecision ==
    (IsOp /\ last.impl = "gui" /\ last.args.seen # "" /\ Pre.present
     /\ last.args.seen # ListState(Pre))
        => \A c \in last.issued : Legal(c, ListState(Pre))

\* The operations that take the name of a VM
DomainOps ==
    {"start", "gracefulStop", "forceStop", "suspend", "resume", "delete"}

\* What an operation answers when lookupByName finds no domain of the
\* name: "VM not found: ..." (delete), "Failed to ...: Domain not found ..."
\* (the other handlers of the terminal manager, which print libvirt's
\* error), False (the GUI's adapter), and "No virtual machines found."
\* when the terminal manager's list is empty.
LookupFailureReports == {NotFound, Failed, False, NoVMs}

C23_DisconnectIsIdempotent ==
    /\ conn.closed <= conn.opened
    /\ conn.call = "disconnect"
          => (conn.returned # Raised /\ conn.handle # "open"
              /\ conn.closed = conn.opened)

\* C24: connect fails (False; the terminal scripts leave the process) when
\* libvirt.open returns no handle or raises, and a program whose connect
\* failed at startup never calls an operation of the coordinator.
C24_FailedConnectIsFatal ==
    /\ (conn.call = "connect" /\ conn.outcome \in {"none", "raises"})
          => conn.returned \in {False, Exit}
    /\ conn.startup = "failed"
          => (conn.invoked = {} /\ conn.pc \in {"error", "exited"})

\* C24's case: main.py's or gui.py's connect returned False, the error was
\* shown and the process is over without an operation having been called.
C24_Witness ==
    /\ conn.class \in GuiConns /\ conn.startup = "failed"
    /\ conn.pc = "exited" /\ conn.invoked = {}

\* C25: after any sequence of connect and disconnect calls on a connection
\* object, the sessions opened through it and not yet closed are none or
\* one, and one exactly when _conn is an open virConnect.
C25_AtMostOneSession ==
    /\ conn.opened - conn.closed \in {0, 1}
    /\ conn.opened - conn.closed = 1 <=> conn.handle = "open"

\* C25's case: connect was called a second time on a connected object;
\* two sessions were opened and one of them is open.
C25_Witness ==
    /\ conn.call = "connect" /\ conn.opened = 2 /\ conn.closed = 1
    /\ conn.handle = "open"

\* C22: no exception leaves an operation of the coordinator or of the
\* connection: whatever call to the hypervisor fails, the operation returns
\* a result.
C22_NoExceptionEscapes ==
    /\ IsOp => last.result # Raised
    /\ conn.returned # Raised

\* C26: list never fails: it returns a list, and the empty list when the
\* hypervisor has no VMs and when the connection cannot enumerate (there
\* is no connection, or listAllDomains raises).
C26_ListNeverFails ==
    (IsOp /\ last.op = "list")
        => /\ last.result = ListResult
           /\ (last.args.fault \in {"no connection", "listAllDomains"}
               \/ last.args.domains = <<>>)
                  => last.report = {}

\* C27: queryAddresses on a VM that is neither Running nor Paused fails
\* with NotRunning and asks the guest agent nothing.
C27_QueryOfInactive ==
    (IsOp /\ last.op = "queryAddresses" /\ Pre.present
     /\ ListState(Pre) \notin {RUNNING, PAUSED})
        => (last.result = NotRunning
            /\ "interfaceAddresses" \notin last.issued /\ Unchanged)

\* C28: queryAddresses on a Running VM whose guest agent does not answer
\* fails with AgentUnavailable, which is neither NotFound nor the general
\* failure, and the VM is as before.
C28_AgentUnavailable ==
    (IsOp /\ last.op = "queryAddresses" /\ Pre.present
     /\ ListState(Pre) = RUNNING /\ ~last.args.agent)
        => (last.result = AgentUnavailable
            /\ last.result \notin {NotFound, Failed, DeleteFailed, NotRunning}
            /\ Unchanged)

\* C28's case: the agent of a Running VM did not answer and the VM is
\* still Running.
C28_Witness ==
    /\ IsOp /\ last.op = "queryAddresses" /\ Pre.present
    /\ ListState(Pre) = RUNNING /\ ~last.args.agent
    /\ last.result = AgentUnavailable /\ ListState(Post) = RUNNING

\* C29: whatever interfaces the guest agent reports, the result of
\* queryAddresses has no entry for the loopback interface and has an entry,
\* with its addresses, for every other interface that has an address.
C29_LoopbackExcluded ==
    (IsOp /\ last.op = "queryAddresses" /\ "interfaceAddresses" \in last.issued
     /\ last.args.agent)
        => /\ \A e \in last.report : e[1] # "lo"
           /\ \A i \in DOMAIN last.args.ifaces :
                  (i # "lo" /\ last.args.ifaces[i] # {})
                      => <<i, last.args.ifaces[i]>> \in last.report

\* C29's case: the agent reported the loopback interface and another
\* interface, both with addresses, and the result has the other one only.
C29_Witness ==
    /\ IsOp /\ last.op = "queryAddresses" /\ last.args.agent
    /\ "interfaceAddresses" \in last.issued
    /\ "lo" \in DOMAIN last.args.ifaces /\ last.args.ifaces["lo"] # {}
    /\ \E e \in last.report : e[1] = "eth0"
    /\ \A e \in last.report : e[1] # "lo"

C31_BootOrderAndInstallMedia ==
    \A k \in DOMAIN descriptors :
        LET xml == descriptors[k].xml
            iso_path == descriptors[k].args[5]
            boots == {i \in DOMAIN xml : xml[i].element = "boot"}
            cdroms == {i \in DOMAIN xml :
                           /\ xml[i].element = "disk"
                           /\ xml[i].device = "cdrom"}
        IN  /\ \E i, j \in boots :
                   /\ xml[i].dev = "cdrom" /\ xml[j].dev = "hd" /\ i < j
            /\ (cdroms # {}) <=> (iso_path \notin {None, ""})
            /\ \A i \in cdroms : xml[i].readonly /\ xml[i].source = iso_path

\* C32: the conversion of a state code is total and fixed: 1 is Running,
\* 3 Paused, 5 ShutOff and every other integer Unknown, and the
\* conversions of LibvirtAdapter and of LibvirtManager agree on every code.
C32_StateMapping ==
    (IsOp /\ last.op = "map_state")
        => LET state_code == last.args.state_code
           IN  /\ last.result = (IF state_code = 1 THEN RUNNING
                                 ELSE IF state_code = 3 THEN PAUSED
                                 ELSE IF state_code = 5 THEN SHUTOFF
                                 ELSE UNKNOWN)
               /\ last.report = {last.result}

\* C32's case: the code of a domain that is shutting down was converted,
\* to Unknown by both.
C32_Witness ==
    /\ IsOp /\ last.op = "map_state"
    /\ last.args.state_code = VIR_DOMAIN_SHUTDOWN
    /\ last.result = UNKNOWN /\ last.report = {UNKNOWN}

\* C33: the terminal manager's delete removes disk files only after it has
\* removed the definition: when undefine fails or the operator declines,
\* no file is deleted, and the files deleted are among the disk paths read
\* from the definition before the confirmation prompt.
C33_DisksOnlyAfterUndefine ==
    (IsOp /\ last.impl = "cli" /\ last.op = "delete")
        => /\ (files # last.files \/ last.report # {})
                  => /\ last.result = Ok /\ "undefine" \in last.issued
                     /\ Pre.present /\ Pre.persistent
                     /\ (~Post.present \/ ~Post.persistent)
                     /\ last.args.confirm /\ last.args.delete_disks
           /\ \A p \in DOMAIN files :
                  files[p] # last.files[p]
                      => files[p] = FileNone /\ p \in Range(last.args.paths)
           /\ \A e \in last.report : e[1] \in Range(last.args.paths)

\* C33's case: the operator confirmed and asked for the disk files to be
\* deleted, undefine failed (the control panel had deleted the VM in the
\* meantime), and the disk file read before is still there.
C33_Witness ==
    /\ IsOp /\ last.impl = "cli" /\ last.op = "delete"
    /\ last.args.confirm /\ last.args.delete_disks
    /\ last.result = DeleteFailed /\ "undefine" \in last.issued
    /\ last.args.paths # <<>>
    /\ \A p \in Range(last.args.paths) : files[p] # FileNone
    /\ files = last.files

\* C34: a delete of the terminal manager that ends because the typed name
\* does not match leaves the VM as it was before the request: defined, in
\* the same state, with its disk files.
C34_MismatchChangesNothing ==
    (IsOp /\ last.impl = "cli" /\ last.op = "delete"
     /\ last.result = Cancelled)
        => (Unchanged /\ Post.present /\ last.issued = {})

\* C35: a lifecycle operation on one VM (start, gracefulStop, forceStop,
\* suspend, resume, delete) leaves every VM of another name as it was: its
\* definition, its state and its disk files.
C35_OtherVmsUntouched ==
    (IsOp /\ last.op \in DomainOps)
        => \A n \in Names \ {last.name} :
               /\ dom[n] = last.dom[n]
               /\ last.dom[n].present
                      => \A p \in Range(last.dom[n].disks) :
                             files[p] = last.files[p]

\* C36: after LibvirtAdapter.disconnect has returned, also when close
\* raised, and before any connect has succeeded, the adapter holds no
\* virConnect; without one, list_all_domains returns the empty list and
\* start, shutdown, destroy, undefine and define return False, and nothing
\* is called on the hypervisor.
C36_NoSessionNoCalls ==
    /\ (conn.class = "LibvirtAdapter"
        /\ (conn.call = "disconnect" \/ conn.opened = 0))
           => (conn.handle = "None" /\ conn.returned # Raised)
    /\ (IsOp /\ last.impl = "gui" /\ last.op # "list"
        /\ last.args.handle = "None")
           => (last.result = False /\ last.issued = {} /\ Unchanged)
    /\ (IsOp /\ last.impl = "gui" /\ last.op = "list"
        /\ last.args.fault = "no connection")
           => (last.result = ListResult /\ last.report = {}
               /\ last.issued = {} /\ Unchanged)

\* C36's case: the connection was lost, disconnect returned although close
\* raised, and a start of a defined VM on the adapter returned False
\* without a call.
C36_Witness ==
    /\ conn.class = "LibvirtAdapter" /\ conn.call = "disconnect"
    /\ conn.opened = 1 /\ conn.handle = "None"
    /\ IsOp /\ last.impl = "gui" /\ last.op = "start"
    /\ last.args.handle = "None" /\ Pre.present
    /\ last.result = False /\ last.issued = {}

\* C37: the list of the adapter is a complete snapshot or nothing: it has
\* one VMInfo for every domain that listAllDomains returned, or it is
\* empty; it is never a part of the enumerated domains.
C37_ListIsAllOrNothing ==
    (IsOp /\ last.impl = "gui" /\ last.op = "list")
        => \/ last.report = {}
           \/ {e.name : e \in last.report} = Range(last.args.domains)

\* C38: once connect has succeeded, the program closes its session before
\* the process ends, however it ends (quit, Ctrl-C, the main loop ending
\* normally or by an exception), and an exception in a menu operation does
\* not end the terminal manager.
C38_SessionClosedAtExit ==
    /\ (conn.pc = "exited" /\ conn.startup = "connected")
           => conn.leaked = 0
    /\ (conn.class \notin GuiConns /\ conn.pc = "handling")
           => (conn.handle = "open" /\ conn.returned = Raised)

\* C39: the two back ends of the GUI are equivalent: in every state of the
\* hypervisor and for every name, start, shutdown, force stop and delete
\* return the same bool from LibvirtManager as from VMService over
\* LibvirtAdapter and do the same to the hypervisor, and list returns the
\* same VMInfo values.
C39_BackendsAgree ==
    /\ (IsOp /\ last.op \in {"start", "gracefulStop", "forceStop", "delete"})
           => \A b \in last.report :
                  /\ b.result = last.result /\ b.issued = last.issued
                  /\ b.d = Post /\ b.files = files
    /\ (IsOp /\ last.op = "list")
           => \A a, b \in last.report : a.vms = b.vms

\* C39's case: both back ends were told to delete a VM, both returned True
\* and the VM is gone, while the other VM is shutting down.
C39_Witness ==
    /\ IsOp /\ last.op = "delete" /\ Pre.present /\ ~Post.present
    /\ \E b \in last.report : b.result = True /\ ~b.d.present
    /\ \E n \in Names : dom[n].present /\ dom[n].code = VIR_DOMAIN_SHUTDOWN

====
